---- MODULE Spec2Model ----
(***************************************************************************)
(* A model of the request pipeline of rust-http-web-server:                *)
(*   parse_request_line, parse_request, handle_request, handle_connection  *)
(* (src/src/lib.rs).                                                       *)
(*                                                                         *)
(* Text is modelled as a sequence of characters, every character a string  *)
(* of length one; NUL stands for the byte 0 and REPLACEMENT for U+FFFD.    *)
(***************************************************************************)
EXTENDS Naturals, Sequences, FiniteSets, TLC

VARIABLES
    pc,         \* position of the running function / harness
    input,      \* what the caller or the peer supplied (never read by the code)
    line,       \* argument of parse_request_line
    result,     \* value returned by parse_request_line
    request,    \* argument of parse_request (lib.rs:143 in handle_connection)
    method,     \* lib.rs:144 / argument of handle_request
    path,       \* lib.rs:144 / argument of handle_request
    headers,    \* lib.rs:144
    base_dir,   \* argument of handle_request and handle_connection
    routes,     \* argument of handle_request and handle_connection
    response,   \* value returned by handle_request (lib.rs:155)
    fs,         \* the filesystem
    log,        \* calls made so far: route handlers, exists(), File::open, ...
    stream,     \* the connection (read_data, write_data, flushed) or the sink
    buffer      \* lib.rs:139

vars == <<pc, input, line, result, request, method, path, headers, base_dir,
          routes, response, fs, log, stream, buffer>>

(***************************************************************************)
(* Bounds of the model                                                     *)
(***************************************************************************)
MaxLineLen == 7        \* longest line handed to parse_request_line
MaxHeaderLines == 2    \* most header lines in a generated request text
MaxRemovals == 1       \* most files another process removes during a run
MaxConnHeaderLines == 1 \* most header lines in a request sent to a connection
BufferSize == 48       \* length of the read buffer (1024 at lib.rs:139)

(***************************************************************************)
(* Characters and string literals of the source                            *)
(***************************************************************************)
NUL == "\\0"
INVALID_BYTE == "\\xFF"
REPLACEMENT == "\\uFFFD"

\* char::is_whitespace (the ASCII members of Unicode White_Space)
WhiteSpace == {" ", "\t", "\n", "\f", "\r"}

None == [none |-> TRUE]
Some(v) == [some |-> v]
IsSome(o) == "some" \in DOMAIN o

EMPTY == <<>>
GET == <<"G", "E", "T">>
HOST == <<"H", "o", "s", "t">>
HEADER_SEP == <<":", " ">>

SLASH == <<"/">>
DOT == <<".">>
DOTDOT == <<".", ".">>
INDEX_HTML == <<"i", "n", "d", "e", "x", ".", "h", "t", "m", "l">>
EXT_HTML == <<"h", "t", "m", "l">>
EXT_CSS == <<"c", "s", "s">>
TEXT_HTML == <<"t", "e", "x", "t", "/", "h", "t", "m", "l">>
TEXT_CSS == <<"t", "e", "x", "t", "/", "c", "s", "s">>
OCTET_STREAM == <<"a", "p", "p", "l", "i", "c", "a", "t", "i", "o", "n", "/",
                  "o", "c", "t", "e", "t", "-", "s", "t", "r", "e", "a", "m">>
TEXT_PLAIN == <<"t", "e", "x", "t", "/", "p", "l", "a", "i", "n">>
METHOD_NOT_ALLOWED == <<"M", "e", "t", "h", "o", "d", " ", "N", "o", "t", " ",
                        "A", "l", "l", "o", "w", "e", "d">>
NOT_FOUND == <<"N", "o", "t", " ", "F", "o", "u", "n", "d">>
OK == <<"O", "K">>

\* main.rs:46 and main.rs:21-27
STATIC == <<"s", "t", "a", "t", "i", "c">>
API_HELLO == <<"/", "a", "p", "i", "/", "h", "e", "l", "l", "o">>
API_HELLO_BODY == <<"{", "\"", "m", "e", "s", "s", "a", "g", "e", "\"", ":", " ", "\"",
                    "H", "e", "l", "l", "o", ",", " ", "A", "P", "I", "!", "\"", "}">>
APPLICATION_JSON == <<"a", "p", "p", "l", "i", "c", "a", "t", "i", "o", "n", "/",
                      "j", "s", "o", "n">>

(***************************************************************************)
(* Helpers over character sequences                                        *)
(***************************************************************************)
Last(s) == s[Len(s)]
Front(s) == SubSeq(s, 1, Len(s) - 1)

RECURSIVE Concat(_)
Concat(ss) == IF ss = <<>> THEN <<>> ELSE Head(ss) \o Concat(Tail(ss))

StartsWith(s, p) == Len(p) <= Len(s) /\ SubSeq(s, 1, Len(p)) = p

\* str::split(pred): the pieces between separator characters, empty ones kept
RECURSIVE SplitFrom(_, _, _, _)
SplitFrom(s, Sep, i, cur) ==
    IF i > Len(s) THEN <<cur>>
    ELSE IF s[i] \in Sep THEN <<cur>> \o SplitFrom(s, Sep, i + 1, <<>>)
    ELSE SplitFrom(s, Sep, i + 1, Append(cur, s[i]))

Split(s, Sep) == SplitFrom(s, Sep, 1, <<>>)

\* Iterator::filter(|s| !s.is_empty())
NonEmpty(ss) == SelectSeq(ss, LAMBDA x : x # <<>>)

\* str::split_whitespace
split_whitespace(s) == NonEmpty(Split(s, WhiteSpace))

\* str::split_inclusive('\n'): every piece keeps its terminator; no empty last piece
RECURSIVE SplitInclusiveFrom(_, _, _)
SplitInclusiveFrom(s, i, cur) ==
    IF i > Len(s) THEN (IF cur = <<>> THEN <<>> ELSE <<cur>>)
    ELSE IF s[i] = "\n" THEN <<Append(cur, s[i])>> \o SplitInclusiveFrom(s, i + 1, <<>>)
    ELSE SplitInclusiveFrom(s, i + 1, Append(cur, s[i]))

split_inclusive(s) == SplitInclusiveFrom(s, 1, <<>>)

\* str::strip_suffix(c)
strip_suffix(s, c) == IF s # <<>> /\ Last(s) = c THEN Some(Front(s)) ELSE None

\* the map closure of str::lines: strip "\n", then one "\r" before it
LinesMap(piece) ==
    LET a == strip_suffix(piece, "\n") IN
    IF ~IsSome(a) THEN piece
    ELSE LET b == strip_suffix(a.some, "\r") IN
         IF ~IsSome(b) THEN a.some ELSE b.some

\* str::lines
lines(s) == LET ps == split_inclusive(s) IN [k \in 1..Len(ps) |-> LinesMap(ps[k])]

\* str::split_once(": "): split at the first occurrence of the separator
RECURSIVE FindFrom(_, _, _)
FindFrom(s, pat, i) ==
    IF i + Len(pat) - 1 > Len(s) THEN 0
    ELSE IF SubSeq(s, i, i + Len(pat) - 1) = pat THEN i
    ELSE FindFrom(s, pat, i + 1)

split_once(s, pat) ==
    LET i == FindFrom(s, pat, 1) IN
    IF i = 0 THEN None
    ELSE Some(<<SubSeq(s, 1, i - 1), SubSeq(s, i + Len(pat), Len(s))>>)

\* Iterator::take_while(|l| !l.is_empty())
RECURSIVE take_while_nonempty(_)
take_while_nonempty(ls) ==
    IF ls = <<>> \/ Head(ls) = <<>> THEN <<>>
    ELSE <<Head(ls)>> \o take_while_nonempty(Tail(ls))

\* HashMap::insert
insert(h, key, value) ==
    [k \in DOMAIN h \cup {key} |-> IF k = key THEN value ELSE h[k]]

\* HashMap::new
EmptyMap == [k \in {} |-> <<>>]

(***************************************************************************)
(* parse_request_line (lib.rs:16-23)                                       *)
(***************************************************************************)
parse_request_line_keeps_first_three(l) ==
    LET parts == split_whitespace(l) IN
    IF Len(parts) >= 3 THEN <<parts[1], parts[2], parts[3]>>
    ELSE <<EMPTY, EMPTY, EMPTY>>

parse_request_line(l) ==
    LET parts == NonEmpty(split_whitespace(l)) IN
    IF Len(parts) = 3 THEN <<parts[1], parts[2], parts[3]>>
    ELSE <<EMPTY, EMPTY, EMPTY>>

(***************************************************************************)
(* parse_request (lib.rs:28-42)                                            *)
(***************************************************************************)
\* the loop body with an insert that keeps the value a key already has
HeaderStep_first_wins(h, l) ==
    LET kv == split_once(l, HEADER_SEP) IN
    IF IsSome(kv) /\ kv.some[1] \notin DOMAIN h
    THEN insert(h, kv.some[1], kv.some[2]) ELSE h

\* the loop body with a header of empty value dropped
HeaderStep_drops_empty_value(h, l) ==
    LET kv == split_once(l, HEADER_SEP) IN
    IF IsSome(kv) /\ kv.some[2] # <<>>
    THEN insert(h, kv.some[1], kv.some[2]) ELSE h

\* the loop body, lib.rs:36-38
HeaderStep(h, l) ==
    LET kv == split_once(l, HEADER_SEP) IN
    IF IsSome(kv) THEN insert(h, kv.some[1], kv.some[2]) ELSE h

\* the for loop, lib.rs:34-39
RECURSIVE HeaderLoop(_, _)
HeaderLoop(h, ls) ==
    IF ls = <<>> THEN h ELSE HeaderLoop(HeaderStep(h, Head(ls)), Tail(ls))

parse_request(req) ==
    LET ls == lines(req)
        request_line == IF ls = <<>> THEN EMPTY ELSE Head(ls)
        rest == IF ls = <<>> THEN <<>> ELSE Tail(ls)
        mpv == parse_request_line(request_line)
    IN  [method |-> mpv[1], path |-> mpv[2],
         headers |-> HeaderLoop(EmptyMap, take_while_nonempty(rest))]

(***************************************************************************)
(* Values of the variables a specification does not use                    *)
(***************************************************************************)
Unused == "unused"

(***************************************************************************)
(* SpecLine: parse_request_line called on every short line                 *)
(***************************************************************************)
LineAlphabet == {"G", "/", " ", "\t"}
Lines == UNION {[1..n -> LineAlphabet] : n \in 0..MaxLineLen}

InitLine ==
    /\ pc = "line_call"
    /\ line \in Lines
    /\ input = line
    /\ result = Unused
    /\ request = Unused /\ method = Unused /\ path = Unused /\ headers = Unused
    /\ base_dir = Unused /\ routes = Unused /\ response = Unused
    /\ fs = Unused /\ log = Unused /\ stream = Unused /\ buffer = Unused

CallParseRequestLine ==
    /\ pc = "line_call"
    /\ result' = parse_request_line(line)
    /\ pc' = "line_returned"
    /\ UNCHANGED <<input, line, request, method, path, headers, base_dir, routes,
                   response, fs, log, stream, buffer>>

NextLine == CallParseRequestLine

SpecLine == InitLine /\ [][NextLine]_vars

(***************************************************************************)
(* What a line is made of, stated without the splitting code: a token is a *)
(* maximal run of non-whitespace characters.                               *)
(***************************************************************************)
IsTokenStart(l, i) == l[i] \notin WhiteSpace /\ (i = 1 \/ l[i - 1] \in WhiteSpace)
IsTokenEnd(l, j) == l[j] \notin WhiteSpace /\ (j = Len(l) \/ l[j + 1] \in WhiteSpace)
TokenStarts(l) == {i \in 1..Len(l) : IsTokenStart(l, i)}
TokenCount(l) == Cardinality(TokenStarts(l))
TokenStart(l, k) ==
    CHOOSE i \in TokenStarts(l) : Cardinality({j \in TokenStarts(l) : j <= i}) = k
TokenEnd(l, i) ==
    CHOOSE j \in i..Len(l) : IsTokenEnd(l, j) /\ \A m \in i..(j - 1) : ~IsTokenEnd(l, m)
Token(l, k) == SubSeq(l, TokenStart(l, k), TokenEnd(l, TokenStart(l, k)))

\* C7: parse_request_line returns the three tokens of a line, in order, when the
\* line has exactly three whitespace-separated tokens, and three empty strings
\* for every other token count; the components are all empty or all non-empty.
C7_RequestLineTokens ==
    pc = "line_returned" =>
        /\ TokenCount(line) = 3 =>
               result = <<Token(line, 1), Token(line, 2), Token(line, 3)>>
        /\ TokenCount(line) # 3 => result = <<EMPTY, EMPTY, EMPTY>>
        /\ \/ \A k \in 1..3 : result[k] = EMPTY
           \/ \A k \in 1..3 : result[k] # EMPTY

\* a line with three tokens and surplus whitespace has been parsed
C7_Witness ==
    /\ pc = "line_returned"
    /\ TokenCount(line) = 3
    /\ Len(line) = MaxLineLen
    /\ result = <<<<"G">>, <<"/">>, <<"G", "/">>>>

\* a line with four tokens has been parsed
C7_WitnessFour ==
    /\ pc = "line_returned"
    /\ TokenCount(line) = 4
    /\ result = <<EMPTY, EMPTY, EMPTY>>

(***************************************************************************)
(* SpecParse: parse_request called on request texts put together from a    *)
(* request line, up to MaxHeaderLines header lines, a line terminator and  *)
(* what follows the header block.  input keeps the pieces; request is the  *)
(* text the code sees.                                                     *)
(***************************************************************************)
CRLF == <<"\r", "\n">>
LF == <<"\n">>

REQ_GET_ROOT == <<"G", "E", "T", " ", "/", " ", "H", "T", "T", "P", "/", "1", ".", "1">>
REQ_POST_X == <<"P", "O", "S", "T", " ", "/", "x", " ", "H", "T", "T", "P", "/", "1", ".", "1">>
REQ_TWO_TOKENS == <<"G", "E", "T", " ", "/">>

H_HOST == <<"H", "o", "s", "t", ":", " ", "h">>
H_HOST_EMPTY == <<"H", "o", "s", "t", ":", " ">>
H_HOST_NO_SPACE == <<"H", "o", "s", "t", ":", "h">>
H_HOST_LOWER == <<"h", "o", "s", "t", ":", " ", "h">>
H_TWO_SEPS == <<"A", ":", " ", "b", ":", " ", "c">>
H_AFTER == <<"B", ":", " ", "2">>

ParseRequestLines == {REQ_GET_ROOT, REQ_POST_X, REQ_TWO_TOKENS, EMPTY}
ParseHeaderLines == {H_HOST, H_HOST_EMPTY, H_HOST_NO_SPACE, H_HOST_LOWER, H_TWO_SEPS}
LineEnds == {CRLF, LF}

\* what follows the header lines: nothing (no blank line), a blank line, or a
\* blank line and further lines
NoTail == <<>>
Tails == {NoTail, <<EMPTY>>, <<EMPTY, H_AFTER>>, <<EMPTY, H_HOST, EMPTY>>}

HeaderLineSeqs(S, n) == UNION {[1..k -> S] : k \in 0..n}

RECURSIVE JoinLines(_, _)
JoinLines(ls, eol) ==
    IF ls = <<>> THEN <<>> ELSE Head(ls) \o eol \o JoinLines(Tail(ls), eol)

\* the text of a request: every line but a final tail line ends with eol
Text(in) ==
    in.request_line \o in.eol \o JoinLines(in.header_lines, in.eol)
        \o (IF in.tail = NoTail THEN <<>>
            ELSE JoinLines(Front(in.tail), in.eol) \o Last(in.tail))

Inputs(RL, HL, n) ==
    [request_line : RL, header_lines : HeaderLineSeqs(HL, n),
     eol : LineEnds, tail : Tails]

Terminated(in) == in.tail # NoTail

InitParse ==
    /\ pc = "parse_call"
    /\ input \in Inputs(ParseRequestLines, ParseHeaderLines, MaxHeaderLines)
    /\ request = Text(input)
    /\ method = Unused /\ path = Unused /\ headers = Unused
    /\ line = Unused /\ result = Unused
    /\ base_dir = Unused /\ routes = Unused /\ response = Unused
    /\ fs = Unused /\ log = Unused /\ stream = Unused /\ buffer = Unused

CallParseRequest ==
    /\ pc = "parse_call"
    /\ LET r == parse_request(request) IN
           /\ method' = r.method
           /\ path' = r.path
           /\ headers' = r.headers
    /\ pc' = "parse_returned"
    /\ UNCHANGED <<input, line, result, request, base_dir, routes, response,
                   fs, log, stream, buffer>>

NextParse == CallParseRequest

SpecParse == InitParse /\ [][NextParse]_vars

(***************************************************************************)
(* Key and value of a header line, stated without the splitting code       *)
(***************************************************************************)
IsSepAt(l, i) == i + 1 <= Len(l) /\ l[i] = ":" /\ l[i + 1] = " "
HasSep(l) == \E i \in 1..Len(l) : IsSepAt(l, i)
FirstSep(l) == CHOOSE i \in 1..Len(l) : IsSepAt(l, i) /\ \A j \in 1..(i - 1) : ~IsSepAt(l, j)
KeyOf(l) == SubSeq(l, 1, FirstSep(l) - 1)
ValueOf(l) == SubSeq(l, FirstSep(l) + 2, Len(l))

SepLines(hs) == {i \in 1..Len(hs) : HasSep(hs[i])}
Superseded(hs, i) == \E j \in SepLines(hs) : j > i /\ KeyOf(hs[j]) = KeyOf(hs[i])
IsEntry(h, k, v) == k \in DOMAIN h /\ h[k] = v

\* C8 as stated: with a blank-line-terminated header block, every header line
\* holding ": " becomes exactly one entry of the map (key before the first
\* ": ", value after it), every entry comes from such a line, and no header
\* lines give the empty map.
C8_EveryLineAnEntry ==
    (pc = "parse_returned" /\ Terminated(input)) =>
        LET hs == input.header_lines IN
        /\ \A i \in SepLines(hs) : IsEntry(headers, KeyOf(hs[i]), ValueOf(hs[i]))
        /\ Cardinality(DOMAIN headers) = Cardinality(SepLines(hs))
        /\ \A k \in DOMAIN headers :
               \E i \in SepLines(hs) : KeyOf(hs[i]) = k /\ headers[k] = ValueOf(hs[i])
        /\ hs = <<>> => headers = EmptyMap

\* C8 as amended: every header line holding ": " whose key no later header
\* line repeats becomes exactly one entry; the map has one entry for each
\* distinct key, every entry comes from the last line with its key, and no
\* entry comes from a line without the separator or from a line at or after
\* the first empty line.
C8_LastLinePerKey ==
    (pc = "parse_returned" /\ Terminated(input)) =>
        LET hs == input.header_lines IN
        /\ \A i \in SepLines(hs) :
               ~Superseded(hs, i) => IsEntry(headers, KeyOf(hs[i]), ValueOf(hs[i]))
        /\ Cardinality(DOMAIN headers) = Cardinality({KeyOf(hs[i]) : i \in SepLines(hs)})
        /\ \A k \in DOMAIN headers :
               \E i \in SepLines(hs) :
                   /\ ~Superseded(hs, i)
                   /\ KeyOf(hs[i]) = k
                   /\ headers[k] = ValueOf(hs[i])
        /\ hs = <<>> => headers = EmptyMap

\* two lines with the key Host, then a blank line and a line holding ": "
C8_Witness ==
    /\ pc = "parse_returned"
    /\ input.header_lines = <<H_HOST_EMPTY, H_HOST>>
    /\ input.tail = <<EMPTY, H_AFTER>>
    /\ DOMAIN headers = {HOST}
    /\ headers[HOST] = <<"h">>

\* C10 as stated: the map parse_request returns never holds the key "Host"
\* with the empty string as its value.
C10_NoEmptyHost ==
    pc = "parse_returned" => ~IsEntry(headers, HOST, EMPTY)

\* C10 as amended: the map holds the key "Host" with an empty value exactly
\* when the last header line starting with "Host: " is the line "Host: ".
C10_EmptyHostFromEmptyLine ==
    pc = "parse_returned" =>
        LET hs == input.header_lines
            host_sep == HOST \o HEADER_SEP
        IN  IsEntry(headers, HOST, EMPTY) <=>
                \E i \in 1..Len(hs) :
                    /\ hs[i] = host_sep
                    /\ \A j \in (i + 1)..Len(hs) : ~StartsWith(hs[j], host_sep)

\* the header line "Host: " has been parsed into an entry with an empty value
C10_Witness ==
    /\ pc = "parse_returned"
    /\ input.header_lines = <<H_HOST, H_HOST_EMPTY>>
    /\ IsEntry(headers, HOST, EMPTY)

(***************************************************************************)
(* The filesystem: a tree of nodes, a node named by the names on the way   *)
(* from the root; the process runs in the root.  A node is a directory or  *)
(* a regular file with its bytes.                                          *)
(***************************************************************************)
Dir == [kind |-> "dir"]
File(bytes) == [kind |-> "file", bytes |-> bytes]

Root == <<>>
Cwd == Root
Parent(node) == IF node = Root THEN Root ELSE Front(node)

\* path resolution of the operating system, one component after the other
RECURSIVE Walk(_, _, _)
Walk(f, node, comps) ==
    IF comps = <<>> THEN Some(node)
    ELSE IF node \notin DOMAIN f \/ f[node].kind # "dir" THEN None
    ELSE LET c == Head(comps) IN
         IF c = EMPTY \/ c = DOT THEN Walk(f, node, Tail(comps))
         ELSE IF c = DOTDOT THEN Walk(f, Parent(node), Tail(comps))
         ELSE IF Append(node, c) \in DOMAIN f THEN Walk(f, Append(node, c), Tail(comps))
         ELSE None

Resolve(f, p) ==
    IF p = EMPTY THEN None
    ELSE LET comps == Split(p, {"/"}) IN
         IF p[1] = "/" THEN Walk(f, Root, Tail(comps)) ELSE Walk(f, Cwd, comps)

\* Path::exists (lib.rs:98): the path resolves, to a file or to a directory
exists(f, p) == IsSome(Resolve(f, p))

\* str::trim_start_matches('/') (lib.rs:91): every leading slash goes
RECURSIVE trim_start_matches(_, _)
trim_start_matches(s, c) ==
    IF s # <<>> /\ Head(s) = c THEN trim_start_matches(Tail(s), c) ELSE s

\* Path::join (lib.rs:95): an absolute argument replaces the base
join(base, p) ==
    IF p # <<>> /\ Head(p) = "/" THEN p
    ELSE IF base # <<>> /\ Last(base) # "/" THEN base \o SLASH \o p
    ELSE base \o p

\* Path::components, as far as file_name needs them: empty components and
\* every "." but a leading one are skipped
components(p) ==
    LET raw == Split(p, {"/"})
        idx == {i \in 1..Len(raw) : raw[i] # EMPTY /\ (raw[i] # DOT \/ i = 1)}
    IN  [i \in idx |-> raw[i]]

\* Path::file_name: the last component when it is a normal one
file_name(p) ==
    LET cs == components(p) IN
    IF DOMAIN cs = {} THEN None
    ELSE LET last == cs[CHOOSE i \in DOMAIN cs : \A j \in DOMAIN cs : j <= i] IN
         IF last = DOT \/ last = DOTDOT THEN None ELSE Some(last)

\* the position of the last "." of a name, 0 when it has none
RECURSIVE LastDot(_, _)
LastDot(name, i) ==
    IF i = 0 THEN 0 ELSE IF name[i] = "." THEN i ELSE LastDot(name, i - 1)

\* Path::extension (lib.rs:100): what follows the last dot of the file name,
\* unless the name has no dot or only a leading one
extension(p) ==
    LET fname == file_name(p) IN
    IF ~IsSome(fname) THEN None
    ELSE LET name == fname.some
             i == LastDot(name, Len(name))
         IN  IF i <= 1 THEN None ELSE Some(SubSeq(name, i + 1, Len(name)))

\* the bytes of a string (String::into_bytes, str::as_bytes): UTF-8
Utf8(c) == IF c = REPLACEMENT THEN <<"\\xEF", "\\xBF", "\\xBD">> ELSE <<c>>
as_bytes(str) == Concat([i \in 1..Len(str) |-> Utf8(str[i])])

(***************************************************************************)
(* handle_request (lib.rs:51-126).  The value returned carries the body    *)
(* producer as a record (what the closure captured) and, in calls, the     *)
(* route handler invoked and the paths tested on the way.                  *)
(***************************************************************************)
\* lib.rs:68 and lib.rs:123
NoBody == [kind |-> "none"]
\* lib.rs:80-83
WriteBytes(body_bytes) == [kind |-> "bytes", body_bytes |-> body_bytes]
\* lib.rs:110-115
CopyFile(file_path) == [kind |-> "file", file_path |-> file_path]

Response(status, reason, content_type, stream_fn, calls) ==
    [status |-> status, reason |-> reason, content_type |-> content_type,
     stream_fn |-> stream_fn, calls |-> calls]

\* lib.rs:100-104
ContentType(p) ==
    LET ext == extension(p) IN
    IF ext = Some(EXT_HTML) THEN TEXT_HTML
    ELSE IF ext = Some(EXT_CSS) THEN TEXT_CSS
    ELSE OCTET_STREAM

\* the relative path without the special case of the root path
RelativePath_no_index(p) == trim_start_matches(p, "/")

\* the relative path with one leading slash removed
RelativePath_strips_one(p) ==
    IF p = SLASH THEN INDEX_HTML
    ELSE IF p # <<>> /\ Head(p) = "/" THEN Tail(p) ELSE p

\* lib.rs:88-92
RelativePath(p) == IF p = SLASH THEN INDEX_HTML ELSE trim_start_matches(p, "/")

\* the static-file branch with the existence test on the base directory
StaticFile_checks_base_dir(f, p, base) ==
    LET rel == RelativePath(p)
        file_path == join(base, rel)
        tested == <<[op |-> "exists", path |-> base]>>
    IN  IF exists(f, base)
        THEN Response(200, OK, ContentType(rel), CopyFile(file_path), tested)
        ELSE Response(404, NOT_FOUND, TEXT_PLAIN, NoBody, tested)

\* lib.rs:87-125
StaticFile(f, p, base) ==
    LET rel == RelativePath(p)
        file_path == join(base, rel)
        tested == <<[op |-> "exists", path |-> file_path]>>
    IN  IF exists(f, file_path)
        THEN Response(200, OK, ContentType(rel), CopyFile(file_path), tested)
        ELSE Response(404, NOT_FOUND, TEXT_PLAIN, NoBody, tested)

\* lib.rs:73-85
Route(p, r) ==
    LET handled == r[p] IN
    Response(200, OK, handled.content_type, WriteBytes(as_bytes(handled.body)),
             <<[op |-> "handler", path |-> p]>>)

\* the dispatcher with the route table consulted before the method
handle_request_routes_first(f, m, p, base, r) ==
    IF p \in DOMAIN r THEN Route(p, r)
    ELSE IF m # GET THEN Response(405, METHOD_NOT_ALLOWED, TEXT_PLAIN, NoBody, <<>>)
    ELSE StaticFile(f, p, base)

\* the dispatcher with the static files consulted before the route table
handle_request_files_first(f, m, p, base, r) ==
    IF m # GET THEN Response(405, METHOD_NOT_ALLOWED, TEXT_PLAIN, NoBody, <<>>)
    ELSE IF StaticFile(f, p, base).status = 200 THEN StaticFile(f, p, base)
    ELSE IF p \in DOMAIN r THEN Route(p, r)
    ELSE StaticFile(f, p, base)

\* the dispatcher with the reason phrase as the body of the 405 result
handle_request_405_with_body(f, m, p, base, r) ==
    IF m # GET
    THEN Response(405, METHOD_NOT_ALLOWED, TEXT_PLAIN,
                  WriteBytes(as_bytes(METHOD_NOT_ALLOWED)), <<>>)
    ELSE IF p \in DOMAIN r THEN Route(p, r)
    ELSE StaticFile(f, p, base)

handle_request(f, m, p, base, r) ==
    IF m # GET THEN Response(405, METHOD_NOT_ALLOWED, TEXT_PLAIN, NoBody, <<>>)
    ELSE IF p \in DOMAIN r THEN Route(p, r)
    ELSE StaticFile(f, p, base)

(***************************************************************************)
(* Running the body producer (the closures of lib.rs:68, 80-83, 110-115    *)
(* and 123): every way it can end, as what it wrote to the sink and how it *)
(* returned.  A write to the sink or a read of the file may fail after any *)
(* number of bytes has gone through.                                       *)
(***************************************************************************)
Outcome(written, res) == [written |-> written, result |-> res]
Prefix(s, k) == SubSeq(s, 1, k)

\* Write::write_all: all the bytes, or an error after fewer
write_all(bytes) ==
    {Outcome(bytes, "Ok")} \cup {Outcome(Prefix(bytes, k), "Err") : k \in 0..(Len(bytes) - 1)}

\* io::copy from the opened file: EISDIR for a directory; otherwise all the
\* bytes, or an error of a read or a write after some of them
copy(node) ==
    IF node.kind = "dir" THEN {Outcome(<<>>, "Err")}
    ELSE {Outcome(node.bytes, "Ok")}
             \cup {Outcome(Prefix(node.bytes, k), "Err") : k \in 0..Len(node.bytes)}

\* the producer with a file that cannot be opened passed over in silence
open_and_copy_skips_missing(f, file_path) ==
    LET opened == Resolve(f, file_path) IN
    IF ~IsSome(opened) THEN {Outcome(<<>>, "Ok")} ELSE copy(f[opened.some])

\* lib.rs:111-113: File::open(..).unwrap() panics when the path does not resolve
open_and_copy(f, file_path) ==
    LET opened == Resolve(f, file_path) IN
    IF ~IsSome(opened) THEN {Outcome(<<>>, "panic")} ELSE copy(f[opened.some])

stream_fn(f, producer) ==
    IF producer.kind = "none" THEN {Outcome(<<>>, "Ok")}
    ELSE IF producer.kind = "bytes" THEN write_all(producer.body_bytes)
    ELSE open_and_copy(f, producer.file_path)

(***************************************************************************)
(* The files of the model and the route tables                             *)
(***************************************************************************)
S_CSS == <<"s", ".", "c", "s", "s">>
DOT_HTML == <<".", "h", "t", "m", "l">>
F_NAME == <<"f">>
D_NAME == <<"d">>
SECRET == <<"s", "e", "c", "r", "e", "t">>

Tree ==
    (Root :> Dir) @@ (<<STATIC>> :> Dir)
    @@ (<<STATIC, INDEX_HTML>> :> File(<<"<", "p", ">">>))
    @@ (<<STATIC, S_CSS>> :> File(<<"p", "{", "}">>))
    @@ (<<STATIC, DOT_HTML>> :> File(<<"h">>))
    @@ (<<STATIC, F_NAME>> :> File(<<>>))
    @@ (<<STATIC, D_NAME>> :> Dir)
    @@ (<<SECRET>> :> File(<<"S">>))

Files(f) == {n \in DOMAIN f : f[n].kind = "file"}
Without(f, n) == [m \in DOMAIN f \ {n} |-> f[m]]

\* a handler is what calling it returns: (body, content type)
Handler(body, content_type) == [body |-> body, content_type |-> content_type]

NoRoutes == [k \in {} |-> Handler(EMPTY, EMPTY)]
\* main.rs:17-27
MainRoutes == API_HELLO :> Handler(API_HELLO_BODY, APPLICATION_JSON)
\* routes with the names of files of the base directory
ShadowRoutes ==
    (SLASH \o INDEX_HTML :> Handler(<<"h", "i">>, TEXT_PLAIN))
    @@ (SLASH :> Handler(EMPTY, TEXT_HTML))

RouteTables == {NoRoutes, MainRoutes, ShadowRoutes}

(***************************************************************************)
(* SpecDispatch: handle_request called directly, then its body producer    *)
(* run on a sink, as tests.rs:158-178 does.  Another process may remove a  *)
(* file between the two.  Every path comes with what it names below the    *)
(* base directory (up: the number of leading "..", names: the names that   *)
(* follow, dir_only: a trailing slash, ext: the extension).                *)
(***************************************************************************)
PathChoice(text, up, names, dir_only, ext) ==
    [text |-> text, up |-> up, names |-> names, dir_only |-> dir_only, ext |-> ext]

PathChoices == {
    PathChoice(SLASH, 0, <<INDEX_HTML>>, FALSE, "html"),
    PathChoice(SLASH \o INDEX_HTML, 0, <<INDEX_HTML>>, FALSE, "html"),
    PathChoice(SLASH \o SLASH \o INDEX_HTML, 0, <<INDEX_HTML>>, FALSE, "html"),
    PathChoice(SLASH \o INDEX_HTML \o SLASH, 0, <<INDEX_HTML>>, TRUE, "html"),
    PathChoice(SLASH \o S_CSS, 0, <<S_CSS>>, FALSE, "css"),
    PathChoice(SLASH \o F_NAME, 0, <<F_NAME>>, FALSE, "none"),
    PathChoice(SLASH \o DOT_HTML, 0, <<DOT_HTML>>, FALSE, "none"),
    PathChoice(SLASH \o D_NAME, 0, <<D_NAME>>, FALSE, "none"),
    PathChoice(SLASH \o <<"n", ".", "h", "t", "m", "l">>, 0,
               <<(<<"n", ".", "h", "t", "m", "l">>)>>, FALSE, "html"),
    PathChoice(SLASH \o DOTDOT \o SLASH \o SECRET, 1, <<SECRET>>, FALSE, "none"),
    PathChoice(API_HELLO, 0, <<(<<"a", "p", "i">>), <<"h", "e", "l", "l", "o">>>>, FALSE, "none"),
    PathChoice(SLASH \o SLASH, 0, <<>>, TRUE, "none")
}

BaseChoice(text, node) == [text |-> text, node |-> node]
BaseChoices == {
    BaseChoice(STATIC, <<STATIC>>),
    BaseChoice(STATIC \o SLASH, <<STATIC>>),
    BaseChoice(EMPTY, Root)
}

DispatchMethods == {GET, <<"P", "O", "S", "T">>, <<"g", "e", "t">>, EMPTY}

NewStream(read_data) == [read_data |-> read_data, write_data |-> <<>>, flushed |-> FALSE]

InitDispatch ==
    /\ pc = "dispatch_call"
    /\ method \in DispatchMethods
    /\ routes \in RouteTables
    /\ fs = Tree
    /\ \E pch \in PathChoices, bch \in BaseChoices :
           /\ path = pch.text
           /\ base_dir = bch.text
           /\ input = [path |-> pch, base |-> bch, fs |-> fs]
    /\ response = None
    /\ log = <<>>
    /\ stream = NewStream(<<>>)
    /\ line = Unused /\ result = Unused /\ request = Unused
    /\ headers = Unused /\ buffer = Unused

CallHandleRequest ==
    /\ pc = "dispatch_call"
    /\ response' = handle_request(fs, method, path, base_dir, routes)
    /\ log' = log \o response'.calls
    /\ pc' = "dispatch_returned"
    /\ UNCHANGED <<input, line, result, request, method, path, headers, base_dir,
                   routes, fs, stream, buffer>>

\* another process removes a file between the existence test of lib.rs:98 and
\* File::open of lib.rs:111 (a removal before the test shows to the code as a
\* request for a missing file, a removal after the open not at all)
FsRemove ==
    /\ pc \in {"dispatch_returned", "streaming"}
    /\ Cardinality(DOMAIN Tree) - Cardinality(DOMAIN fs) < MaxRemovals
    /\ \E n \in Files(fs) : fs' = Without(fs, n)
    /\ UNCHANGED <<pc, input, line, result, request, method, path, headers,
                   base_dir, routes, response, log, stream, buffer>>

\* tests.rs:175-176: stream_fn(&mut output)
RunStreamFn ==
    /\ pc = "dispatch_returned"
    /\ \E o \in stream_fn(fs, response.stream_fn) :
           /\ stream' = [stream EXCEPT !.write_data = @ \o o.written]
           /\ pc' = IF o.result = "Ok" THEN "body_ok"
                    ELSE IF o.result = "Err" THEN "body_err" ELSE "body_panic"
    /\ log' = IF response.stream_fn.kind = "file"
              THEN Append(log, [op |-> "open", path |-> response.stream_fn.file_path])
              ELSE log
    /\ UNCHANGED <<input, line, result, request, method, path, headers, base_dir,
                   routes, response, fs, buffer>>

NextDispatch == CallHandleRequest \/ FsRemove \/ RunStreamFn

SpecDispatch == InitDispatch /\ [][NextDispatch]_vars

(***************************************************************************)
(* What a request path names, stated from the pieces it was made of        *)
(***************************************************************************)
Returned == pc \in {"dispatch_returned", "body_ok", "body_err", "body_panic"}

TargetNode(in) ==
    (IF in.path.up = 0 THEN in.base.node ELSE Parent(in.base.node)) \o in.path.names

\* the candidate path is not the empty path, it names a node of the
\* filesystem as it was at the call, and a directory if it ends with a slash
CandidateExists(in) ==
    /\ ~(in.base.text = EMPTY /\ in.path.up = 0 /\ in.path.names = <<>>)
    /\ TargetNode(in) \in DOMAIN in.fs
    /\ in.path.dir_only => in.fs[TargetNode(in)].kind = "dir"

ExtensionType(ext) ==
    IF ext = "html" THEN TEXT_HTML ELSE IF ext = "css" THEN TEXT_CSS ELSE OCTET_STREAM

Is(r, status, reason, content_type) ==
    r.status = status /\ r.reason = reason /\ r.content_type = content_type

\* C2: a method other than "GET" gives 405 "Method Not Allowed", text/plain and
\* a body producer that writes nothing and cannot fail, whatever the path, the
\* base directory and the route table; no handler runs, no path is tested.
C2_NonGetIs405 ==
    (Returned /\ method # GET) =>
        /\ Is(response, 405, METHOD_NOT_ALLOWED, TEXT_PLAIN)
        /\ stream.write_data = <<>>
        /\ pc \in {"dispatch_returned", "body_ok"}
        /\ log = <<>>

\* POST of a route key, the body producer run
C2_Witness ==
    /\ pc = "body_ok"
    /\ method = <<"P", "O", "S", "T">>
    /\ path = API_HELLO /\ routes = MainRoutes
    /\ response.status = 405

\* C3: GET of a route key gives 200 "OK" with the handler's content type and a
\* body producer that writes exactly the handler's body, the handler called
\* once and no path tested, also when the path names a file of the base
\* directory.
C3_RouteBeforeFiles ==
    (Returned /\ method = GET /\ path \in DOMAIN routes) =>
        /\ Is(response, 200, OK, routes[path].content_type)
        /\ pc = "body_ok" => stream.write_data = routes[path].body
        /\ pc # "body_panic"
        /\ log = <<[op |-> "handler", path |-> path]>>

\* GET /index.html with a route of that name and the file in place
C3_Witness ==
    /\ pc = "body_ok"
    /\ method = GET /\ path = SLASH \o INDEX_HTML /\ routes = ShadowRoutes
    /\ CandidateExists(input)
    /\ stream.write_data = <<"h", "i">>

\* C4: GET of a path that is no route key and whose candidate file exists gives
\* 200 "OK" with the content type of the extension (html, css, anything else),
\* and a body producer that, when it returns Ok, has written exactly the bytes
\* of the file.
C4_StaticFileServed ==
    (Returned /\ method = GET /\ path \notin DOMAIN routes /\ CandidateExists(input)) =>
        /\ Is(response, 200, OK, ExtensionType(input.path.ext))
        /\ pc = "body_ok" =>
               /\ TargetNode(input) \in Files(fs)
               /\ stream.write_data = fs[TargetNode(input)].bytes

\* GET / served from static/index.html
C4_Witness ==
    /\ pc = "body_ok"
    /\ method = GET /\ path = SLASH /\ base_dir = STATIC /\ routes = MainRoutes
    /\ response.content_type = TEXT_HTML
    /\ stream.write_data = <<"<", "p", ">">>

\* C5: GET of a path that is no route key and whose candidate file does not
\* exist gives 404 "Not Found", text/plain and a body producer that writes
\* nothing.
C5_MissingFileIs404 ==
    (Returned /\ method = GET /\ path \notin DOMAIN routes /\ ~CandidateExists(input)) =>
        /\ Is(response, 404, NOT_FOUND, TEXT_PLAIN)
        /\ stream.write_data = <<>>
        /\ pc \in {"dispatch_returned", "body_ok"}

\* GET /n.html, which names nothing, the body producer run
C5_Witness ==
    /\ pc = "body_ok"
    /\ method = GET /\ path = SLASH \o <<"n", ".", "h", "t", "m", "l">>
    /\ base_dir = STATIC
    /\ response.status = 404

\* node is dir or lies below it
Inside(node, dir) == Len(dir) <= Len(node) /\ SubSeq(node, 1, Len(dir)) = dir

\* what a path tested or opened by the code names in the filesystem as it was
\* at the call, when it names anything
Named(p) == Resolve(input.fs, p)

\* C11 as stated: whatever GET path matches no route, every path that
\* handle_request tests for existence and its body producer opens names
\* nothing outside the base directory, and no byte of a file outside the base
\* directory is written.
C11_StaysInsideBase ==
    (Returned /\ method = GET /\ path \notin DOMAIN routes) =>
        /\ \A i \in 1..Len(log) :
               IsSome(Named(log[i].path)) => Inside(Named(log[i].path).some, input.base.node)
        /\ (response.status = 200 /\ pc = "body_ok" /\ stream.write_data # <<>>) =>
               Inside(TargetNode(input), input.base.node)

\* the bytes a 200 result has to send: the handler's body or the file's bytes
BodySource ==
    IF path \in DOMAIN routes THEN routes[path].body ELSE fs[TargetNode(input)].bytes

\* C12 as stated: once the body producer of a result has run, it has written
\* at least one byte exactly when the status is 200.
C12_BodyIff200 ==
    pc = "body_ok" => (stream.write_data # <<>> <=> response.status = 200)

\* C12: a 404 or 405 result writes no byte and its producer cannot fail; bytes
\* are written only for a 200 result; a 200 result whose producer returns Ok
\* has written no byte exactly when the handler's body or the file is empty.
C12_BodyOnly200 ==
    Returned =>
        /\ response.status \in {200, 404, 405}
        /\ response.status \in {404, 405} =>
               stream.write_data = <<>> /\ pc \in {"dispatch_returned", "body_ok"}
        /\ stream.write_data # <<>> => response.status = 200
        /\ (response.status = 200 /\ pc = "body_ok") =>
               (stream.write_data = <<>> <=> BodySource = <<>>)

\* GET /f, an empty file of the base directory: 200 and no byte written
C12_Witness ==
    /\ pc = "body_ok"
    /\ method = GET /\ path = SLASH \o F_NAME /\ base_dir = STATIC
    /\ response.status = 200
    /\ stream.write_data = <<>>

\* the number of slashes a path begins with
LeadingSlashes(p) ==
    CHOOSE n \in 0..Len(p) :
        /\ \A i \in 1..n : p[i] = "/"
        /\ n = Len(p) \/ p[n + 1] # "/"

\* the static-file branch tests the base directory joined with rel
TestsOnly(rel) == log[1] = [op |-> "exists", path |-> join(base_dir, rel)]

\* C17 as stated: for a GET path that matches no route, the path tested is
\* the base directory joined with "index.html" for the path "/", and with the
\* request path less its first slash for every other path.
C17_OneSlashRemoved ==
    (Returned /\ method = GET /\ path \notin DOMAIN routes) =>
        TestsOnly(IF path = SLASH THEN INDEX_HTML
                  ELSE SubSeq(path, IF LeadingSlashes(path) = 0 THEN 1 ELSE 2, Len(path)))

\* C17: for a GET path that matches no route, the path tested is the base
\* directory joined with "index.html" for the path "/" and for no other, and
\* with the request path less all the slashes it begins with for every other
\* path, so that "//index.html" names the same file as "/index.html" and "//"
\* the base directory itself.
C17_LeadingSlashesRemoved ==
    (Returned /\ method = GET /\ path \notin DOMAIN routes) =>
        /\ TestsOnly(IF path = SLASH THEN INDEX_HTML
                     ELSE SubSeq(path, LeadingSlashes(path) + 1, Len(path)))
        /\ (path # SLASH /\ LeadingSlashes(path) = Len(path)) =>
               log[1].path = join(base_dir, EMPTY)

\* GET //index.html below "static": static/index.html is tested and served
C17_Witness ==
    /\ pc = "body_ok"
    /\ method = GET /\ path = SLASH \o SLASH \o INDEX_HTML /\ base_dir = STATIC
    /\ path \notin DOMAIN routes
    /\ log[1] = [op |-> "exists", path |-> STATIC \o SLASH \o INDEX_HTML]
    /\ response.status = 200
    /\ stream.write_data = <<"<", "p", ">">>

(***************************************************************************)
(* handle_connection (lib.rs:133-168)                                      *)
(***************************************************************************)
BAD_REQUEST_RESPONSE ==
    <<"H", "T", "T", "P", "/", "1", ".", "1", " ", "4", "0", "0", " ",
      "B", "a", "d", " ", "R", "e", "q", "u", "e", "s", "t", "\r", "\n",
      "C", "o", "n", "t", "e", "n", "t", "-", "L", "e", "n", "g", "t", "h", ":", " ", "0",
      "\r", "\n", "\r", "\n">>

\* lib.rs:139: [0; 1024]
ZeroBuffer == [i \in 1..BufferSize |-> NUL]

\* Read::read into the buffer: the first n bytes are overwritten
Fill(buf, data, n) == [i \in 1..Len(buf) |-> IF i <= n THEN data[i] ELSE buf[i]]

\* String::from_utf8_lossy (lib.rs:143): an invalid byte becomes U+FFFD
from_utf8_lossy(bytes) ==
    [i \in 1..Len(bytes) |-> IF bytes[i] = INVALID_BYTE THEN REPLACEMENT ELSE bytes[i]]

\* Display of an integer: its decimal digits
Digit(d) == <<"0", "1", "2", "3", "4", "5", "6", "7", "8", "9">>[d + 1]
RECURSIVE to_string(_)
to_string(n) ==
    IF n < 10 THEN <<Digit(n)>> ELSE Append(to_string(n \div 10), Digit(n % 10))

\* the head with the Content-Type header left out
format_response_no_content_type(status, reason, content_type) ==
    <<"H", "T", "T", "P", "/", "1", ".", "1", " ">> \o to_string(status) \o <<" ">> \o reason
        \o <<"\r", "\n", "\r", "\n">>

\* the head with the blank line left out
format_response_no_blank_line(status, reason, content_type) ==
    <<"H", "T", "T", "P", "/", "1", ".", "1", " ">> \o to_string(status) \o <<" ">> \o reason
        \o <<"\r", "\n", "C", "o", "n", "t", "e", "n", "t", "-", "T", "y", "p", "e", ":", " ">>
        \o content_type \o <<"\r", "\n">>

\* lib.rs:159-162: format!("HTTP/1.1 {} {}\r\nContent-Type: {}\r\n\r\n", ..)
format_response(status, reason, content_type) ==
    <<"H", "T", "T", "P", "/", "1", ".", "1", " ">> \o to_string(status) \o <<" ">> \o reason
        \o <<"\r", "\n", "C", "o", "n", "t", "e", "n", "t", "-", "T", "y", "p", "e", ":", " ">>
        \o content_type \o <<"\r", "\n", "\r", "\n">>

Min(a, b) == IF a <= b THEN a ELSE b

\* lib.rs:139-140: one read of at most the buffer's length; unwrap panics on
\* an error
Read ==
    /\ pc = "reading"
    /\ \/ /\ pc' = "panicked"
          /\ UNCHANGED <<stream, buffer>>
       \/ \E n \in 0..Min(Len(stream.read_data), BufferSize) :
              /\ buffer' = Fill(buffer, stream.read_data, n)
              /\ stream' = [stream EXCEPT
                                !.read_data = SubSeq(@, n + 1, Len(@))]
              /\ pc' = "parsing"
    /\ UNCHANGED <<input, line, result, request, method, path, headers, base_dir,
                   routes, response, fs, log>>

\* lib.rs:143-144
Parse ==
    /\ pc = "parsing"
    /\ request' = from_utf8_lossy(buffer)
    /\ LET r == parse_request(request') IN
           /\ method' = r.method
           /\ path' = r.path
           /\ headers' = r.headers
    /\ pc' = "validating"
    /\ UNCHANGED <<input, line, result, base_dir, routes, response, fs, log,
                   stream, buffer>>

\* the test of lib.rs:147 without its condition on the method
Validate_any_method ==
    /\ pc = "validating"
    /\ pc' = IF HOST \notin DOMAIN headers THEN "rejecting" ELSE "dispatching"
    /\ UNCHANGED <<input, line, result, request, method, path, headers, base_dir,
                   routes, response, fs, log, stream, buffer>>

\* the test of lib.rs:147 applied to GET requests only
Validate_get_only ==
    /\ pc = "validating"
    /\ pc' = IF HOST \notin DOMAIN headers /\ method = GET
             THEN "rejecting" ELSE "dispatching"
    /\ UNCHANGED <<input, line, result, request, method, path, headers, base_dir,
                   routes, response, fs, log, stream, buffer>>

\* lib.rs:147
Validate ==
    /\ pc = "validating"
    /\ pc' = IF HOST \notin DOMAIN headers /\ method # EMPTY
             THEN "rejecting" ELSE "dispatching"
    /\ UNCHANGED <<input, line, result, request, method, path, headers, base_dir,
                   routes, response, fs, log, stream, buffer>>

\* lib.rs:148-149 without the return of lib.rs:151
Reject_falls_through ==
    /\ pc = "rejecting"
    /\ \E o \in write_all(as_bytes(BAD_REQUEST_RESPONSE)) :
           /\ stream' = [stream EXCEPT !.write_data = @ \o o.written]
           /\ pc' = IF o.result = "Ok" THEN "dispatching" ELSE "panicked"
    /\ UNCHANGED <<input, line, result, request, method, path, headers, base_dir,
                   routes, response, fs, log, buffer>>

\* lib.rs:148-149
Reject ==
    /\ pc = "rejecting"
    /\ \E o \in write_all(as_bytes(BAD_REQUEST_RESPONSE)) :
           /\ stream' = [stream EXCEPT !.write_data = @ \o o.written]
           /\ pc' = IF o.result = "Ok" THEN "flushing" ELSE "panicked"
    /\ UNCHANGED <<input, line, result, request, method, path, headers, base_dir,
                   routes, response, fs, log, buffer>>

\* lib.rs:155-156
Dispatch ==
    /\ pc = "dispatching"
    /\ response' = handle_request(fs, method, path, base_dir, routes)
    /\ log' = log \o response'.calls
    /\ pc' = "writing"
    /\ UNCHANGED <<input, line, result, request, method, path, headers, base_dir,
                   routes, fs, stream, buffer>>

\* lib.rs:159-165
WriteHead ==
    /\ pc = "writing"
    /\ \E o \in write_all(as_bytes(format_response(response.status, response.reason,
                                                   response.content_type))) :
           /\ stream' = [stream EXCEPT !.write_data = @ \o o.written]
           /\ pc' = IF o.result = "Ok" THEN "streaming" ELSE "panicked"
    /\ UNCHANGED <<input, line, result, request, method, path, headers, base_dir,
                   routes, response, fs, log, buffer>>

\* lib.rs:166: stream_fn(&mut stream).unwrap()
StreamBody ==
    /\ pc = "streaming"
    /\ \E o \in stream_fn(fs, response.stream_fn) :
           /\ stream' = [stream EXCEPT !.write_data = @ \o o.written]
           /\ pc' = IF o.result = "Ok" THEN "flushing" ELSE "panicked"
    /\ log' = IF response.stream_fn.kind = "file"
              THEN Append(log, [op |-> "open", path |-> response.stream_fn.file_path])
              ELSE log
    /\ UNCHANGED <<input, line, result, request, method, path, headers, base_dir,
                   routes, response, fs, buffer>>

\* the flush followed by a return to the read, as a connection kept alive
\* would do
Flush_keep_alive ==
    /\ pc = "flushing"
    /\ \/ /\ stream' = [stream EXCEPT !.flushed = TRUE]
          /\ pc' = IF stream.read_data # <<>> /\ ~stream.flushed THEN "reading" ELSE "done"
       \/ /\ pc' = "panicked"
          /\ UNCHANGED stream
    /\ UNCHANGED <<input, line, result, request, method, path, headers, base_dir,
                   routes, response, fs, log, buffer>>

\* lib.rs:150 and lib.rs:167: stream.flush().unwrap()
Flush ==
    /\ pc = "flushing"
    /\ \/ /\ stream' = [stream EXCEPT !.flushed = TRUE]
          /\ pc' = "done"
       \/ /\ pc' = "panicked"
          /\ UNCHANGED stream
    /\ UNCHANGED <<input, line, result, request, method, path, headers, base_dir,
                   routes, response, fs, log, buffer>>

(***************************************************************************)
(* Spec: one connection of the server of main.rs (base directory "static", *)
(* the route /api/hello), the peer sending one of the request texts below. *)
(***************************************************************************)
GetLine(p) == GET \o <<" ">> \o p \o <<" ", "H", "T", "T", "P", "/", "1", ".", "1">>
N_HTML == <<"n", ".", "h", "t", "m", "l">>
REQ_POST_ROOT == <<"P", "O", "S", "T", " ", "/", " ", "H", "T", "T", "P", "/", "1", ".", "1">>
REQ_FOUR_TOKENS == <<"G", "E", "T", " ", "/", " ", "H", " ", "x">>

ConnPaths ==
    {SLASH, API_HELLO, SLASH \o N_HTML, SLASH \o D_NAME, SLASH \o F_NAME,
     SLASH \o SLASH \o S_CSS, SLASH \o DOTDOT \o SLASH \o SECRET,
     SLASH \o <<INVALID_BYTE>>}

ConnRequestLines ==
    {GetLine(p) : p \in ConnPaths} \cup {REQ_POST_ROOT, REQ_TWO_TOKENS, REQ_FOUR_TOKENS, EMPTY}
ConnHeaderLines == {H_HOST, H_HOST_EMPTY, H_HOST_NO_SPACE}
ConnTails == {NoTail, <<EMPTY>>, <<EMPTY, REQ_GET_ROOT, H_HOST, EMPTY, EMPTY>>}

ConnInputs ==
    [request_line : ConnRequestLines,
     header_lines : HeaderLineSeqs(ConnHeaderLines, MaxConnHeaderLines),
     eol : {CRLF}, tail : ConnTails]

Init ==
    /\ pc = "reading"
    /\ input \in ConnInputs
    /\ stream = NewStream(Text(input))
    /\ buffer = ZeroBuffer
    /\ request = EMPTY /\ method = EMPTY /\ path = EMPTY /\ headers = EmptyMap
    /\ base_dir = STATIC
    /\ routes = MainRoutes
    /\ response = None
    /\ fs = Tree
    /\ log = <<>>
    /\ line = Unused /\ result = Unused

Next ==
    \/ Read
    \/ Parse
    \/ Validate
    \/ Reject
    \/ Dispatch
    \/ WriteHead
    \/ StreamBody
    \/ Flush
    \/ FsRemove

Spec == Init /\ [][Next]_vars

(***************************************************************************)
(* What the peer sent and what the one read took of it                     *)
(***************************************************************************)
\* the request line, the header lines and the blank line that ends them
HeadText(in) ==
    in.request_line \o in.eol \o JoinLines(in.header_lines, in.eol) \o in.eol

BytesRead == Len(Text(input)) - Len(stream.read_data)

IsPrefix(p, s) == Len(p) <= Len(s) /\ SubSeq(s, 1, Len(p)) = p

\* C1: a request with a non-empty parsed method and no "Host" key in the
\* parsed headers is answered with the fixed 400 response and nothing else,
\* flushed, and the dispatcher and the route handlers are never called,
\* whatever the method and the path.
C1_MissingHostIs400 ==
    (pc \notin {"reading", "parsing", "validating"}
        /\ method # EMPTY /\ HOST \notin DOMAIN headers) =>
        /\ pc \in {"rejecting", "flushing", "done", "panicked"}
        /\ response = None
        /\ log = <<>>
        /\ pc = "rejecting" => stream.write_data = <<>>
        /\ pc \in {"flushing", "done"} => stream.write_data = BAD_REQUEST_RESPONSE
        /\ pc = "panicked" => IsPrefix(stream.write_data, BAD_REQUEST_RESPONSE)
        /\ pc = "done" <=> stream.flushed

\* POST without a Host header, answered and flushed
C1_Witness ==
    /\ pc = "done"
    /\ method = <<"P", "O", "S", "T">>
    /\ HOST \notin DOMAIN headers
    /\ stream.write_data = BAD_REQUEST_RESPONSE
    /\ stream.flushed

OK_HEAD ==
    <<"H", "T", "T", "P", "/", "1", ".", "1", " ", "2", "0", "0", " ", "O", "K", "\r", "\n",
      "C", "o", "n", "t", "e", "n", "t", "-", "T", "y", "p", "e", ":", " ">>

HasHostLine(in) ==
    \E i \in 1..Len(in.header_lines) : StartsWith(in.header_lines[i], HOST \o HEADER_SEP)

BAD_REQUEST_RESPONSE_LINE(k) ==
    IF k = 1
    THEN <<"H", "T", "T", "P", "/", "1", ".", "1", " ", "4", "0", "0", " ",
           "B", "a", "d", " ", "R", "e", "q", "u", "e", "s", "t">>
    ELSE <<"C", "o", "n", "t", "e", "n", "t", "-", "L", "e", "n", "g", "t", "h", ":", " ", "0">>

STATUS_LINES == {
    <<"H", "T", "T", "P", "/", "1", ".", "1", " ", "2", "0", "0", " ", "O", "K">>,
    <<"H", "T", "T", "P", "/", "1", ".", "1", " ", "4", "0", "0", " ",
      "B", "a", "d", " ", "R", "e", "q", "u", "e", "s", "t">>,
    <<"H", "T", "T", "P", "/", "1", ".", "1", " ", "4", "0", "4", " ",
      "N", "o", "t", " ", "F", "o", "u", "n", "d">>,
    <<"H", "T", "T", "P", "/", "1", ".", "1", " ", "4", "0", "5", " ",
      "M", "e", "t", "h", "o", "d", " ", "N", "o", "t", " ",
      "A", "l", "l", "o", "w", "e", "d">>}
CONTENT_TYPE == <<"C", "o", "n", "t", "e", "n", "t", "-", "T", "y", "p", "e", ":", " ">>
CONTENT_LENGTH ==
    <<"C", "o", "n", "t", "e", "n", "t", "-", "L", "e", "n", "g", "t", "h", ":", " ">>

IsBlankAt(out, i) == i + 3 <= Len(out) /\ SubSeq(out, i, i + 3) = CRLF \o CRLF
HasBlank(out) == \E i \in 1..Len(out) : IsBlankAt(out, i)
FirstBlank(out) ==
    CHOOSE i \in 1..Len(out) : IsBlankAt(out, i) /\ \A j \in 1..(i - 1) : ~IsBlankAt(out, j)

\* the header lines of a response: what precedes its first blank line
HeadLinesOf(out) == lines(SubSeq(out, 1, FirstBlank(out) + 1))
BodyOf(out) == SubSeq(out, FirstBlank(out) + 4, Len(out))

\* status line, Content-Type header, optional Content-Length header, blank line
WireFormat(out) ==
    /\ HasBlank(out)
    /\ LET hl == HeadLinesOf(out) IN
       /\ Len(hl) \in {2, 3}
       /\ hl[1] \in STATUS_LINES
       /\ StartsWith(hl[2], CONTENT_TYPE)
       /\ Len(hl) = 3 => StartsWith(hl[3], CONTENT_LENGTH)

\* C9 as stated: every response written has a status line, then a
\* Content-Type header, then an optional Content-Length header, then a blank
\* line, then the body.
C9_ContentTypeInEveryResponse ==
    pc = "done" => WireFormat(stream.write_data)

\* C9 as amended: the responses of the outcomes 200, 404 and 405 are a status
\* line, a Content-Type header, a blank line and the body, with no
\* Content-Length header; the 400 response is its status line, the header
\* "Content-Length: 0" and a blank line, with no Content-Type header and no
\* body.
C9_WireFormat ==
    pc = "done" =>
        LET out == stream.write_data IN
        IF response = None
        THEN /\ HasBlank(out)
             /\ HeadLinesOf(out) = <<BAD_REQUEST_RESPONSE_LINE(1), BAD_REQUEST_RESPONSE_LINE(2)>>
             /\ BodyOf(out) = <<>>
        ELSE /\ WireFormat(out)
             /\ Len(HeadLinesOf(out)) = 2
             /\ HeadLinesOf(out)[1] # BAD_REQUEST_RESPONSE_LINE(1)
             /\ response.status # 200 => BodyOf(out) = <<>>

\* a 404 response written and flushed
C9_Witness ==
    /\ pc = "done"
    /\ response # None
    /\ response.status = 404
    /\ WireFormat(stream.write_data)

\* a 400 response written and flushed
C9_Witness400 ==
    /\ pc = "done"
    /\ response = None
    /\ ~WireFormat(stream.write_data)

(***************************************************************************)
(* The status lines of what a connection has written                       *)
(***************************************************************************)
HTTP_VERSION == <<"H", "T", "T", "P", "/", "1", ".", "1", " ">>
STATUS_CODES == {<<"2", "0", "0">>, <<"4", "0", "0">>, <<"4", "0", "4">>, <<"4", "0", "5">>}

\* the positions of out where a status line starts
StatusLineStarts(out) ==
    {i \in 1..Len(out) :
        /\ i + Len(HTTP_VERSION) - 1 <= Len(out)
        /\ SubSeq(out, i, i + Len(HTTP_VERSION) - 1) = HTTP_VERSION
        /\ i = 1 \/ out[i - 1] = "\n"}

\* one of the two is the beginning of the other
Compatible(a, b) == IsPrefix(a, b) \/ IsPrefix(b, a)

\* C14: whatever bytes arrive and however many of them the read returns, what
\* the connection has written is the beginning of, or begins with, "HTTP/1.1 "
\* followed by 200, 400, 404 or 405 and a space, that status line is complete
\* once the head has been written, and no second status line follows it.
C14_OneKnownStatus ==
    /\ \E code \in STATUS_CODES :
           Compatible(stream.write_data, HTTP_VERSION \o code \o <<" ">>)
    /\ pc \in {"streaming", "flushing", "done"} => StatusLineStarts(stream.write_data) = {1}
    /\ Cardinality(StatusLineStarts(stream.write_data)) <= 1

\* the answer to a request line of two tokens with a pipelined request behind
\* it: the one status line 405
C14_Witness ==
    /\ pc = "done"
    /\ input.request_line = REQ_TWO_TOKENS
    /\ input.tail = <<EMPTY, REQ_GET_ROOT, H_HOST, EMPTY, EMPTY>>
    /\ StatusLineStarts(stream.write_data) = {1}
    /\ SubSeq(stream.write_data, 10, 12) = <<"4", "0", "5">>

RESPONSE_405 ==
    HTTP_VERSION \o <<"4", "0", "5", " ">> \o METHOD_NOT_ALLOWED \o CRLF
        \o CONTENT_TYPE \o TEXT_PLAIN \o CRLF \o CRLF

\* C16: a request line that does not have exactly three tokens, once read
\* with its line end, gives the empty method; and a run whose parsed method is
\* empty never takes the 400 branch, with or without a Host header: it gets
\* the 405 result of the dispatcher, no handler is called and no path tested,
\* and what it writes is the 405 head with text/plain and nothing after it.
C16_MalformedLineIs405 ==
    /\ (pc \notin {"reading", "parsing"}
           /\ TokenCount(input.request_line) # 3
           /\ BytesRead >= Len(input.request_line) + Len(input.eol)) => method = EMPTY
    /\ (pc \notin {"reading", "parsing", "validating"} /\ method = EMPTY) =>
           /\ pc # "rejecting"
           /\ pc \in {"writing", "streaming", "flushing", "done"} =>
                  response # None /\ Is(response, 405, METHOD_NOT_ALLOWED, TEXT_PLAIN)
           /\ log = <<>>
           /\ IsPrefix(stream.write_data, RESPONSE_405)
           /\ pc \in {"streaming", "flushing", "done"} => stream.write_data = RESPONSE_405
           /\ pc = "done" => stream.flushed

\* "GET /" with a Host header: not 400 but 405, written and flushed
C16_Witness ==
    /\ pc = "done"
    /\ input.request_line = REQ_TWO_TOKENS
    /\ method = EMPTY
    /\ HOST \in DOMAIN headers
    /\ stream.write_data = RESPONSE_405

\* four tokens and no Host header: the Host test is skipped
C16_WitnessNoHost ==
    /\ pc = "done"
    /\ input.request_line = REQ_FOUR_TOKENS
    /\ method = EMPTY
    /\ HOST \notin DOMAIN headers
    /\ stream.write_data = RESPONSE_405

\* the result in hand is the 200 of the static-file branch
ServesFile == response # None /\ response.status = 200 /\ response.stream_fn.kind = "file"

\* the file of that result, as it was when its existence was tested
ServedNode == Resolve(Tree, response.stream_fn.file_path).some

HeadOf(r) == HTTP_VERSION \o <<"2", "0", "0", " ">> \o OK \o CRLF
                 \o CONTENT_TYPE \o r.content_type \o CRLF \o CRLF

\* C18: once the static-file branch has returned 200, a run that completes
\* has written the 200 head and every byte of the file, flushed; a run whose
\* file was removed after the test, is a directory, or whose copy failed ends
\* panicked, never flushed, with the 200 head and at most a part of the body
\* written and no other status line.
C18_NoRecoveryAfter200 ==
    ServesFile =>
        /\ pc \in {"writing", "streaming", "flushing", "done", "panicked"}
        /\ pc \in {"flushing", "done"} =>
               /\ ServedNode \in Files(fs)
               /\ stream.write_data = HeadOf(response) \o Tree[ServedNode].bytes
        /\ pc = "done" <=> stream.flushed
        /\ (pc = "panicked" /\ Tree[ServedNode].kind = "file") =>
               IsPrefix(stream.write_data, HeadOf(response) \o Tree[ServedNode].bytes)
        /\ (pc \notin {"writing", "streaming"}
               /\ (ServedNode \notin DOMAIN fs \/ Tree[ServedNode].kind = "dir")) =>
               /\ pc = "panicked"
               /\ IsPrefix(stream.write_data, HeadOf(response))
        /\ Cardinality(StatusLineStarts(stream.write_data)) <= 1

\* static/index.html removed after the existence test: the 200 head is out,
\* the open fails, the run has panicked without a flush and without a body
C18_Witness ==
    /\ ServesFile
    /\ path = SLASH
    /\ ServedNode \notin DOMAIN fs
    /\ pc = "panicked"
    /\ ~stream.flushed
    /\ stream.write_data = HeadOf(response)

(***************************************************************************)
(* SpecLive: the connection of Spec with every step of handle_connection   *)
(* taken once it can be: read, write and flush return, with a result or an *)
(* error.  Other processes need not do anything.                           *)
(***************************************************************************)
Step == Read \/ Parse \/ Validate \/ Reject \/ Dispatch \/ WriteHead \/ StreamBody \/ Flush

\* the run has not ended: exactly then a step of it is possible
Running ==
    pc \in {"reading", "parsing", "validating", "rejecting", "dispatching", "writing",
            "streaming", "flushing"}

\* weak fairness of Step, with Running written for ENABLED <<Step>>_vars
Fairness == []<>(~Running) \/ []<><<Step>>_vars

SpecLive == Init /\ [][Next]_vars /\ Fairness

\* the four states of a run (Reading with the parse, Validating with the 400
\* answer, Dispatching, Writing with the body and the flush), then its end
StateOrder(p) ==
    IF p \in {"reading", "parsing"} THEN 1
    ELSE IF p \in {"validating", "rejecting"} THEN 2
    ELSE IF p = "dispatching" THEN 3
    ELSE IF p \in {"writing", "streaming", "flushing"} THEN 4
    ELSE 5

\* a step never goes back in the order of the states, enters Validating only
\* from Reading, Dispatching only from Validating and Writing only from
\* Dispatching, takes bytes from the stream only in Reading, once and with
\* nothing written yet, and writes only after Reading
OrderedStep ==
    /\ StateOrder(pc') >= StateOrder(pc)
    /\ pc' = "reading" => pc = "reading"
    /\ (pc' = "validating" /\ pc # pc') => pc = "parsing"
    /\ (pc' = "dispatching" /\ pc # pc') => pc = "validating"
    /\ (pc' = "writing" /\ pc # pc') => pc = "dispatching"
    /\ stream'.read_data # stream.read_data =>
           pc = "reading" /\ pc' # "reading" /\ stream.write_data = <<>>
    /\ stream'.write_data # stream.write_data => StateOrder(pc) \in {2, 3, 4}

\* C15: every step of a run respects the order Reading, Validating,
\* Dispatching, Writing and never returns to Reading; the stream is read once,
\* before anything is written; a run that completes has written one response,
\* the answer to the first request of the buffer, whatever follows it; and
\* when every stream operation returns the run ends, completed or panicked.
C15_OneRequestThenStop ==
    /\ [][OrderedStep]_vars
    /\ [](pc = "done" =>
             /\ StatusLineStarts(stream.write_data) = {1}
             /\ BytesRead >= Len(input.request_line) + Len(input.eol) =>
                    LET first == parse_request_line(from_utf8_lossy(input.request_line))
                    IN  method = first[1] /\ path = first[2])
    /\ <>(pc \in {"done", "panicked"})

\* a GET without a Host header and a complete second request with one, both
\* in the buffer: the first is answered with 400, the second not at all
C15_Witness ==
    /\ pc = "done"
    /\ input.request_line = REQ_GET_ROOT /\ input.header_lines = <<>>
    /\ input.tail = <<EMPTY, REQ_GET_ROOT, H_HOST, EMPTY, EMPTY>>
    /\ BytesRead = Len(Text(input))
    /\ stream.write_data = BAD_REQUEST_RESPONSE

(***************************************************************************)
(* SpecServer: the accept loop of main.rs:31-48 and the threads it spawns. *)
(* In this specification pc maps the main thread and every worker to its   *)
(* position, and input, stream, buffer, request, method, path, headers and *)
(* response map every worker to its own value; log is the sequence of      *)
(* accepts and panics of the process.  Every peer sends its request in one *)
(* piece.                                                                  *)
(***************************************************************************)
MAIN == "main"
Workers == {"w1", "w2"}

\* a panic in the closure given to thread::spawn (main.rs:41-47) with the
\* process aborting on every panic
panic_aborts_process(pcs, t) ==
    [u \in DOMAIN pcs |->
        IF u = MAIN THEN "panicked"
        ELSE IF u = t THEN "panicked"
        ELSE IF pcs[u] \in {"done", "panicked"} THEN pcs[u] ELSE "killed"]

\* a panic unwinds the thread it happens in: a spawned thread ends alone
\* (main.rs:41-47), and when the main thread ends (main.rs:33) the process
\* exits and takes every thread still running with it
panic(pcs, t) ==
    IF t = MAIN
    THEN [u \in DOMAIN pcs |->
             IF u = MAIN THEN "panicked"
             ELSE IF pcs[u] \in {"done", "panicked"} THEN pcs[u] ELSE "killed"]
    ELSE [pcs EXCEPT ![t] = "panicked"]

\* the locals of one run of handle_connection (lib.rs:133-168)
Conn(w) ==
    [pc |-> pc[w], stream |-> stream[w], buffer |-> buffer[w], request |-> request[w],
     method |-> method[w], path |-> path[w], headers |-> headers[w],
     response |-> response[w]]

\* lib.rs:139-167, one step of a run from the position c.pc: every way the
\* step can end
handle_connection(c, f, base, r) ==
    IF c.pc = "reading"
    THEN LET n == Min(Len(c.stream.read_data), BufferSize) IN
         {[c EXCEPT !.pc = "panicked"],
          [c EXCEPT !.buffer = Fill(@, c.stream.read_data, n),
                    !.stream.read_data = SubSeq(@, n + 1, Len(@)),
                    !.pc = "parsing"]}
    ELSE IF c.pc = "parsing"
    THEN LET req == from_utf8_lossy(c.buffer)
             parsed == parse_request(req)
         IN  {[c EXCEPT !.request = req, !.method = parsed.method, !.path = parsed.path,
                        !.headers = parsed.headers, !.pc = "validating"]}
    ELSE IF c.pc = "validating"
    THEN {[c EXCEPT !.pc = IF HOST \notin DOMAIN c.headers /\ c.method # EMPTY
                           THEN "rejecting" ELSE "dispatching"]}
    ELSE IF c.pc = "rejecting"
    THEN {[c EXCEPT !.stream.write_data = @ \o o.written,
                    !.pc = IF o.result = "Ok" THEN "flushing" ELSE "panicked"] :
             o \in write_all(as_bytes(BAD_REQUEST_RESPONSE))}
    ELSE IF c.pc = "dispatching"
    THEN {[c EXCEPT !.response = handle_request(f, c.method, c.path, base, r),
                    !.pc = "writing"]}
    ELSE IF c.pc = "writing"
    THEN {[c EXCEPT !.stream.write_data = @ \o o.written,
                    !.pc = IF o.result = "Ok" THEN "streaming" ELSE "panicked"] :
             o \in write_all(as_bytes(format_response(c.response.status, c.response.reason,
                                                      c.response.content_type)))}
    ELSE IF c.pc = "streaming"
    THEN {[c EXCEPT !.stream.write_data = @ \o o.written,
                    !.pc = IF o.result = "Ok" THEN "flushing" ELSE "panicked"] :
             o \in stream_fn(f, c.response.stream_fn)}
    ELSE IF c.pc = "flushing"
    THEN {[c EXCEPT !.stream.flushed = TRUE, !.pc = "done"], [c EXCEPT !.pc = "panicked"]}
    ELSE {}

\* the requests the peers send, each with the response a connection of its
\* own gets for it
ServerRequest(request_line, header_lines, expected) ==
    [request_line |-> request_line, header_lines |-> header_lines, eol |-> CRLF,
     tail |-> <<EMPTY>>, expected |-> expected]

ServerInputs == {
    ServerRequest(GetLine(SLASH), <<H_HOST>>,
                  OK_HEAD \o TEXT_HTML \o CRLF \o CRLF \o <<"<", "p", ">">>),
    ServerRequest(GetLine(API_HELLO), <<H_HOST>>,
                  OK_HEAD \o APPLICATION_JSON \o CRLF \o CRLF \o API_HELLO_BODY),
    ServerRequest(REQ_POST_ROOT, <<>>, BAD_REQUEST_RESPONSE)
}

\* main.rs:10-27, and the connections waiting to be accepted
InitServer ==
    /\ pc = [t \in Workers \cup {MAIN} |-> IF t = MAIN THEN "accepting" ELSE "connecting"]
    /\ input \in [Workers -> ServerInputs]
    /\ stream = [w \in Workers |-> NewStream(Text(input[w]))]
    /\ buffer = [w \in Workers |-> ZeroBuffer]
    /\ request = [w \in Workers |-> EMPTY]
    /\ method = [w \in Workers |-> EMPTY]
    /\ path = [w \in Workers |-> EMPTY]
    /\ headers = [w \in Workers |-> EmptyMap]
    /\ response = [w \in Workers |-> None]
    /\ base_dir = STATIC
    /\ routes = MainRoutes
    /\ fs = Tree
    /\ log = <<>>
    /\ line = Unused /\ result = Unused

\* main.rs:31-47: the next connection is accepted and its thread spawned
Accept ==
    /\ pc[MAIN] = "accepting"
    /\ \E w \in Workers :
           /\ pc[w] = "connecting"
           /\ pc' = [pc EXCEPT ![w] = "reading"]
           /\ log' = Append(log, [op |-> "accept", thread |-> w])
    /\ UNCHANGED <<input, line, result, request, method, path, headers, base_dir,
                   routes, response, fs, stream, buffer>>

\* main.rs:33: stream.unwrap() on a failed accept
AcceptError ==
    /\ pc[MAIN] = "accepting"
    /\ pc' = panic(pc, MAIN)
    /\ log' = Append(log, [op |-> "accept_error", thread |-> MAIN])
    /\ UNCHANGED <<input, line, result, request, method, path, headers, base_dir,
                   routes, response, fs, stream, buffer>>

\* main.rs:46: a step of handle_connection in the thread of worker w
WorkerStep(w) ==
    /\ pc[MAIN] = "accepting"
    /\ \E c \in handle_connection(Conn(w), fs, base_dir, routes) :
           /\ pc' = IF c.pc = "panicked" THEN panic(pc, w) ELSE [pc EXCEPT ![w] = c.pc]
           /\ log' = IF c.pc = "panicked"
                     THEN Append(log, [op |-> "panic", thread |-> w]) ELSE log
           /\ stream' = [stream EXCEPT ![w] = c.stream]
           /\ buffer' = [buffer EXCEPT ![w] = c.buffer]
           /\ request' = [request EXCEPT ![w] = c.request]
           /\ method' = [method EXCEPT ![w] = c.method]
           /\ path' = [path EXCEPT ![w] = c.path]
           /\ headers' = [headers EXCEPT ![w] = c.headers]
           /\ response' = [response EXCEPT ![w] = c.response]
    /\ UNCHANGED <<input, line, result, base_dir, routes, fs>>

Work == \E w \in Workers : WorkerStep(w)

NextServer == Accept \/ AcceptError \/ Work

SpecServer == InitServer /\ [][NextServer]_vars

Logged(op, t) == \E i \in 1..Len(log) : log[i] = [op |-> op, thread |-> t]

\* C13: as long as no accept has failed, whatever panics the workers had, the
\* main thread is still in its accept loop and no worker has been stopped from
\* outside: every worker panicked only by a failure of its own, every worker
\* still running can take its next step, and every worker that completed has
\* written and flushed exactly the response to its own request.
C13_WorkerFailureIsolated ==
    /\ ~Logged("accept_error", MAIN) =>
           /\ pc[MAIN] = "accepting"
           /\ \A w \in Workers :
                  /\ pc[w] # "killed"
                  /\ pc[w] = "panicked" <=> Logged("panic", w)
                  /\ pc[w] \notin {"connecting", "done", "panicked"} =>
                         handle_connection(Conn(w), fs, base_dir, routes) # {}
                  /\ pc[w] = "connecting" => ENABLED Accept
    /\ \A w \in Workers :
           pc[w] = "done" =>
               stream[w].write_data = input[w].expected /\ stream[w].flushed

\* worker w1 panicked after part of its 200 response; w2 was accepted after
\* that and completed its own
C13_Witness ==
    /\ pc[MAIN] = "accepting"
    /\ log = <<[op |-> "accept", thread |-> "w1"], [op |-> "panic", thread |-> "w1"],
               [op |-> "accept", thread |-> "w2"]>>
    /\ stream["w1"].write_data # <<>>
    /\ stream["w1"].write_data # input["w1"].expected
    /\ pc["w2"] = "done"
    /\ stream["w2"].write_data = input["w2"].expected

====
